---- MODULE Spec2Model ----
(***************************************************************************)
(* WhatsApp OTP sample server (Server/python/server.py).                   *)
(*                                                                         *)
(* The Flask development server started by app.run() serves every request  *)
(* on a thread of its own, and the handlers send_otp and verify_otp share   *)
(* the module-level dict active_codes without any lock.  A request is       *)
(* therefore modelled as a thread with a program counter; one action is one *)
(* access to the shared dict (or to a record object held in it) together    *)
(* with the thread-local computation that follows it.                       *)
(*                                                                         *)
(* Record objects live in `heap`: active_codes maps a phone number to the   *)
(* index of a record object (0: the key is absent), and a handler's local   *)
(* variable active_code keeps such an index, which stays valid after the    *)
(* key has been deleted or overwritten, as a Python reference does.  An     *)
(* object that neither the dict nor a thread refers to is freed.            *)
(*                                                                         *)
(* log_active_codes() and print() only write to stdout and are modelled as  *)
(* leaving the state unchanged.                                             *)
(***************************************************************************)
EXTENDS Integers, Sequences, FiniteSets, TLC

\* ---------------------------------------------------------------- constants

CODE_LENGTH == 6
CODE_LIFETIME_MINUTES == 5
MAX_VERIFICATION_ATTEMPTS == 3

\* ------------------------------------------------------------------- bounds

\* Record objects ever written into active_codes (successful send_otp calls).
MaxIssues == 2
\* The last instant of the clock (minutes).
MaxTime == 6
\* The longest code hash_code and verify_code are applied to on their own.
MaxCodeLength == 2

\* Phone numbers (dict keys) and request threads.
Phones == {"15550001", "15550002"}
Threads == 1..MAX_VERIFICATION_ATTEMPTS

\* The instants datetime.now() is sampled at: the start, the expiry instant of
\* a code generated at the start, and the instants after it.
Instants == {0, CODE_LIFETIME_MINUTES} \cup (CODE_LIFETIME_MINUTES + 1)..MaxTime

\* Codes: strings of decimal digits.
CodeA == <<1, 2, 3, 4, 5, 6>>
CodeB == <<6, 5, 4, 3, 2, 1>>
CodeZ == <<1, 0, 0, 0, 0, 0>>
Codes == UNION {[1..n -> 0..9] : n \in 1..MaxCodeLength}

\* body.get("code") of the request body: absent or null, a string, a number.
JsonNull == [type |-> "null", chars |-> <<>>]
JsonStr(s) == [type |-> "str", chars |-> s]
JsonInt(s) == [type |-> "int", chars |-> s]

VARIABLES
    active_codes,   \* phone number -> index into heap, 0 when the key is absent
    heap,           \* the record objects {"code_hash", "expiration", "attempts"}
    now,            \* datetime.now()
    delivered,      \* Delivery Gateway: <<phone, code>> sent with a 200 response
    pc,             \* per thread: where its handler stands
    phone_number,   \* per thread: the route parameter
    provided_code,  \* per thread: verify_otp's body.get("code")
    code,           \* per thread: send_otp's generated code
    expiration,     \* per thread: send_otp's expiration
    active_code,    \* per thread: verify_otp's active_code (heap index, 0: None)
    entry,          \* per thread: the dict loaded by active_codes[phone_number] at line 320
    attempts_read,  \* per thread: the value of ["attempts"] loaded at line 320
    response,       \* the response sent last, with the request it answers
    accepted,       \* per record object: the 200 responses verify_otp gave on it
    compared,       \* per record object: the codes line 319 found not to match it
    verified,       \* one application of hash_code and verify_code on its own
    generated,      \* one application of generate_code on its own
    last_delivered  \* per phone number: the code delivered last

vars ==
    <<active_codes, heap, now, delivered, pc, phone_number, provided_code, code,
      expiration, active_code, entry, attempts_read, response, accepted,
      compared, verified, generated, last_delivered>>

\* ----------------------------------------------------------- pure functions

RECURSIVE Pow10(_), Str(_), Zfill(_, _)


\* hashlib.sha256(code.encode()).hexdigest(): deterministic and, on the codes of
\* the model, free of collisions.
hash_code(c) == [alg |-> "sha256", of |-> c]

\* 10 ** n
Pow10(n) == IF n = 0 THEN 1 ELSE 10 * Pow10(n - 1)

\* str(n) of an integer n >= 0: its decimal digits, the first one first.
Str(n) == IF n < 10 THEN <<n>> ELSE Append(Str(n \div 10), n % 10)

\* s.zfill(width): zeros on the left up to the width.
Zfill(s, width) == IF Len(s) >= width THEN s ELSE Zfill(<<0>> \o s, width)

\* Lines 58-59 and the argument of secrets.randbelow at line 60.
min_val == Pow10(CODE_LENGTH - 1)
max_val == Pow10(CODE_LENGTH) - 1
RandBelow == max_val - min_val + 1

\* generate_code with the whole range drawn and no lower bound.
generate_code_unbounded(r) == Zfill(Str(r), CODE_LENGTH)

\* generate_code(), secrets.randbelow() having returned r.
generate_code(r) == Zfill(Str(min_val + r), CODE_LENGTH)

\* A comparison of the first characters only.
verify_code_first(provided, stored_hash) ==
    hash_code(provided).of[1] = stored_hash.of[1]

\* hmac.compare_digest(hash_code(provided_code), stored_hash)
verify_code(provided, stored_hash) == hash_code(provided) = stored_hash

\* Python truthiness of body.get("code") in `if not provided_code`.
Falsy(v) ==
    \/ v.type = "null"
    \/ v.type = "str" /\ v.chars = <<>>
    \/ v.type = "int" /\ v.chars = <<0>>

\* ---------------------------------------------------------------- responses

\* What a handler returns: the HTTP status, the outcome its message names and,
\* for "Incorrect code", the attempts it reports as remaining.
Reply(status, outcome, remaining) ==
    [status |-> status, outcome |-> outcome, remaining |-> remaining]
\* An exception no handler catches: Flask answers 500.
Unhandled == Reply(500, "InternalError", 0)

\* The response r to a request, returned now: handler h on phone p with body
\* code c, decided on record object o.
Sent(h, p, c, o, r) ==
    [handler |-> h, phone |-> p, provided_code |-> c, record |-> o, at |-> now,
     status |-> r.status, outcome |-> r.outcome, remaining |-> r.remaining]

\* ------------------------------------------------------- record objects

\* A freed record object.
Freed == [code_hash |-> hash_code(<<>>), expiration |-> 0, attempts |-> 0]

\* Object o is referred to by the dict ac or by a local (act: active_code,
\* ent: the dict loaded at line 320) of some thread.
Live(o, ac, act, ent) ==
    \/ \E p \in Phones : ac[p] = o
    \/ \E t \in Threads : act[t] = o \/ ent[t] = o

\* The objects h with those nothing refers to freed.
Sweep(h, blank, ac, act, ent) ==
    [o \in DOMAIN h |-> IF Live(o, ac, act, ent) THEN h[o] ELSE blank]

\* One more on object o in the count n, which stops one past
\* MAX_VERIFICATION_ATTEMPTS.
Counted(n, o) ==
    [n EXCEPT ![o] = IF @ > MAX_VERIFICATION_ATTEMPTS THEN @ ELSE @ + 1]

\* The heap becomes h, the 200 responses counted a and the mismatches counted
\* c, less what the step leaves unreferenced.
Heap(h, a, c) ==
    /\ heap' = Sweep(h, Freed, active_codes', active_code', entry')
    /\ accepted' = Sweep(a, 0, active_codes', active_code', entry')
    /\ compared' = Sweep(c, 0, active_codes', active_code', entry')

\* verify_code(provided, hash_code(c)) taken on its own: the two codes, then the
\* stored hash and the result once they are computed.
Unverified(provided, c) ==
    [provided_code |-> provided, code |-> c, stored_hash |-> hash_code(<<>>),
     step |-> "code", result |-> FALSE]

\* generate_code() taken on its own: what secrets.randbelow returned, then the
\* code once it is computed.
Ungenerated(r) == [randbelow |-> r, code |-> <<>>, step |-> "random"]

\* ------------------------------------------------------------- initial state

\* The module is loaded: no code is active and no request is being served.
Started ==
    /\ active_codes = [p \in Phones |-> 0]
    /\ heap = <<>>
    /\ now = 0
    /\ delivered = {}
    /\ pc = [t \in Threads |-> "idle"]
    /\ phone_number = [t \in Threads |-> ""]
    /\ provided_code = [t \in Threads |-> JsonNull]
    /\ code = [t \in Threads |-> <<>>]
    /\ expiration = [t \in Threads |-> 0]
    /\ active_code = [t \in Threads |-> 0]
    /\ entry = [t \in Threads |-> 0]
    /\ attempts_read = [t \in Threads |-> 0]
    /\ response = Sent("none", "", JsonNull, 0, Reply(0, "None", 0))
    /\ accepted = <<>>
    /\ compared = <<>>
    /\ last_delivered = [p \in Phones |-> <<>>]

Init ==
    /\ Started
    /\ verified = Unverified(<<>>, <<>>)
    /\ generated = Ungenerated(0)

\* The locals of thread t are dropped when its handler returns.
Drop(t) ==
    /\ pc' = [pc EXCEPT ![t] = "idle"]
    /\ phone_number' = [phone_number EXCEPT ![t] = ""]
    /\ provided_code' = [provided_code EXCEPT ![t] = JsonNull]
    /\ code' = [code EXCEPT ![t] = <<>>]
    /\ expiration' = [expiration EXCEPT ![t] = 0]
    /\ active_code' = [active_code EXCEPT ![t] = 0]
    /\ entry' = [entry EXCEPT ![t] = 0]
    /\ attempts_read' = [attempts_read EXCEPT ![t] = 0]

\* send_otp on thread t returns r.
ReturnSend(t, r) ==
    /\ response' = Sent("send_otp", phone_number[t], JsonNull, 0, r)
    /\ Drop(t)

\* verify_otp on thread t returns r.
ReturnVerify(t, r) ==
    /\ response' = Sent("verify_otp", phone_number[t], provided_code[t],
                        active_code[t], r)
    /\ Drop(t)

\* The handler of thread t goes on at `label`.
Goto(t, label) ==
    /\ pc' = [pc EXCEPT ![t] = label]
    /\ UNCHANGED <<phone_number, provided_code, code, expiration, active_code,
                   entry, attempts_read, response>>

Sending == {t \in Threads : pc[t] \in {"post", "store"}}

\* ------------------------------------------------------------------ send_otp

\* Lines 199-200: a request for phone p arrives; generate_code() returns c and
\* the expiration is computed, before the Delivery Gateway is called.  At most
\* n record objects are ever written.
SendOtpGenerate(t, p, c, n) ==
    /\ pc[t] = "idle"
    /\ Len(heap) + Cardinality(Sending) < n
    /\ code' = [code EXCEPT ![t] = c]
    /\ expiration' = [expiration EXCEPT ![t] = now + CODE_LIFETIME_MINUTES]
    /\ phone_number' = [phone_number EXCEPT ![t] = p]
    /\ pc' = [pc EXCEPT ![t] = "post"]
    /\ UNCHANGED <<active_codes, heap, now, delivered, provided_code, active_code,
                   entry, attempts_read, response, accepted, compared, verified,
                   generated,
                   last_delivered>>

\* Lines 235-253 without the check of the status at line 237.
SendOtpPostUnchecked(t) ==
    /\ pc[t] = "post"
    /\ \E answer \in {"200", "non200", "exception"} :
          IF answer = "exception"
          THEN /\ delivered' = delivered
               /\ last_delivered' = last_delivered
               /\ ReturnSend(t, Reply(500, "DeliveryError", 0))
          ELSE /\ delivered' = IF answer = "200"
                               THEN delivered \cup {<<phone_number[t], code[t]>>}
                               ELSE delivered
               /\ last_delivered' =
                    IF answer = "200"
                    THEN [last_delivered EXCEPT ![phone_number[t]] = code[t]]
                    ELSE last_delivered
               /\ Goto(t, "store")
    /\ UNCHANGED <<active_codes, heap, now, accepted, compared, verified, generated>>

\* Lines 235-242, 255-259: requests.post returns 200, returns another status, or
\* raises; only a 200 response lets the handler go on to the store.
SendOtpPost(t) ==
    /\ pc[t] = "post"
    /\ \E answer \in {"200", "non200", "exception"} :
          IF answer = "200"
          THEN /\ delivered' = delivered \cup {<<phone_number[t], code[t]>>}
               /\ last_delivered' =
                    [last_delivered EXCEPT ![phone_number[t]] = code[t]]
               /\ Goto(t, "store")
          ELSE /\ delivered' = delivered
               /\ last_delivered' = last_delivered
               /\ ReturnSend(t, Reply(500, "DeliveryError", 0))
    /\ UNCHANGED <<active_codes, heap, now, accepted, compared, verified, generated>>

\* Lines 245-253 with the expiration computed at the store.
SendOtpStoreLate(t) ==
    /\ pc[t] = "store"
    /\ active_codes' = [active_codes EXCEPT ![phone_number[t]] = Len(heap) + 1]
    /\ ReturnSend(t, Reply(200, "Sent", 0))
    /\ Heap(Append(heap, [code_hash |-> hash_code(code[t]),
                          expiration |-> now + CODE_LIFETIME_MINUTES,
                          attempts |-> 0]),
            Append(accepted, 0), Append(compared, 0))
    /\ UNCHANGED <<now, delivered, verified, generated,
                   last_delivered>>

\* Lines 245-253: a new record object replaces whatever the key held.
SendOtpStore(t) ==
    /\ pc[t] = "store"
    /\ active_codes' = [active_codes EXCEPT ![phone_number[t]] = Len(heap) + 1]
    /\ ReturnSend(t, Reply(200, "Sent", 0))
    /\ Heap(Append(heap, [code_hash |-> hash_code(code[t]),
                          expiration |-> expiration[t],
                          attempts |-> 0]),
            Append(accepted, 0), Append(compared, 0))
    /\ UNCHANGED <<now, delivered, verified, generated,
                   last_delivered>>

\* ---------------------------------------------------------------- verify_otp

\* The delete of thread t emptying the whole dict (active_codes.clear()) in
\* place of removing one key.
DeleteAndReturnAll(t, r) ==
    IF active_codes[phone_number[t]] = 0
    THEN /\ ReturnVerify(t, Unhandled)
         /\ UNCHANGED active_codes
    ELSE /\ active_codes' = [p \in Phones |-> 0]
         /\ ReturnVerify(t, r)

\* del active_codes[phone_number] by thread t, then `r`; KeyError when the key
\* is absent.
DeleteAndReturn(t, r) ==
    IF active_codes[phone_number[t]] = 0
    THEN /\ ReturnVerify(t, Unhandled)
         /\ UNCHANGED active_codes
    ELSE /\ active_codes' = [active_codes EXCEPT ![phone_number[t]] = 0]
         /\ ReturnVerify(t, r)

\* Lines 286-300 with a missing code counted as an attempt.
VerifyOtpGetCounted(t, p, c) ==
    /\ pc[t] = "idle"
    /\ IF active_codes[p] = 0
       THEN /\ response' = Sent("verify_otp", p, c, 0, Reply(404, "NotFound", 0))
            /\ Drop(t)
            /\ heap' = heap
       ELSE IF Falsy(c)
            THEN /\ response' = Sent("verify_otp", p, c, active_codes[p],
                                     Reply(400, "BadRequest", 0))
                 /\ Drop(t)
                 /\ heap' = [heap EXCEPT ![active_codes[p]].attempts = @ + 1]
            ELSE /\ phone_number' = [phone_number EXCEPT ![t] = p]
                 /\ provided_code' = [provided_code EXCEPT ![t] = c]
                 /\ active_code' = [active_code EXCEPT ![t] = active_codes[p]]
                 /\ pc' = [pc EXCEPT ![t] = "expiry"]
                 /\ heap' = heap
                 /\ UNCHANGED <<code, expiration, entry, attempts_read, response>>
    /\ UNCHANGED <<active_codes, now, delivered, accepted, compared, verified,
                   generated,
                   last_delivered>>

\* Lines 286-300 with the check of the body (line 297) before that of the
\* record (line 287).
VerifyOtpGetBodyFirst(t, p, c) ==
    /\ pc[t] = "idle"
    /\ IF Falsy(c)
       THEN /\ response' = Sent("verify_otp", p, c, active_codes[p],
                                Reply(400, "BadRequest", 0))
            /\ Drop(t)
       ELSE IF active_codes[p] = 0
            THEN /\ response' = Sent("verify_otp", p, c, 0, Reply(404, "NotFound", 0))
                 /\ Drop(t)
            ELSE /\ phone_number' = [phone_number EXCEPT ![t] = p]
                 /\ provided_code' = [provided_code EXCEPT ![t] = c]
                 /\ active_code' = [active_code EXCEPT ![t] = active_codes[p]]
                 /\ pc' = [pc EXCEPT ![t] = "expiry"]
                 /\ UNCHANGED <<code, expiration, entry, attempts_read, response>>
    /\ UNCHANGED <<active_codes, heap, now, delivered, accepted, compared, verified,
                   generated,
                   last_delivered>>

\* Lines 286-300: a request for phone p with body.get("code") = c arrives;
\* active_codes.get(), then the two guards that touch nothing.
VerifyOtpGet(t, p, c) ==
    /\ pc[t] = "idle"
    /\ IF active_codes[p] = 0
       THEN /\ response' = Sent("verify_otp", p, c, 0, Reply(404, "NotFound", 0))
            /\ Drop(t)
       ELSE IF Falsy(c)
            THEN /\ response' = Sent("verify_otp", p, c, active_codes[p],
                                     Reply(400, "BadRequest", 0))
                 /\ Drop(t)
            ELSE /\ phone_number' = [phone_number EXCEPT ![t] = p]
                 /\ provided_code' = [provided_code EXCEPT ![t] = c]
                 /\ active_code' = [active_code EXCEPT ![t] = active_codes[p]]
                 /\ pc' = [pc EXCEPT ![t] = "expiry"]
                 /\ UNCHANGED <<code, expiration, entry, attempts_read, response>>
    /\ UNCHANGED <<active_codes, heap, now, delivered, accepted, compared, verified,
                   generated,
                   last_delivered>>

\* Lines 303-308: datetime.now() > active_code["expiration"].
VerifyOtpExpiry(t) ==
    /\ pc[t] = "expiry"
    /\ IF now > heap[active_code[t]].expiration
       THEN DeleteAndReturn(t, Reply(401, "Expired", 0))
       ELSE /\ Goto(t, "attempts")
            /\ UNCHANGED active_codes
    /\ Heap(heap, accepted, compared)
    /\ UNCHANGED <<now, delivered, verified, generated,
                   last_delivered>>

\* Lines 311-319: active_code["attempts"] >= MAX_VERIFICATION_ATTEMPTS, then
\* verify_code(), which raises AttributeError on a code that is no string.
VerifyOtpAttempts(t) ==
    /\ pc[t] = "attempts"
    /\ IF heap[active_code[t]].attempts >= MAX_VERIFICATION_ATTEMPTS
       THEN /\ DeleteAndReturn(t, Reply(401, "TooManyAttempts", 0))
            /\ Heap(heap, accepted, compared)
       ELSE /\ UNCHANGED active_codes
            /\ IF provided_code[t].type # "str"
               THEN /\ ReturnVerify(t, Unhandled)
                    /\ Heap(heap, accepted, compared)
               ELSE IF verify_code(provided_code[t].chars,
                                   heap[active_code[t]].code_hash)
                    THEN /\ Goto(t, "success")
                         /\ Heap(heap, accepted, compared)
                    ELSE /\ Goto(t, "load")
                         /\ Heap(heap, accepted,
                                 Counted(compared, active_code[t]))
    /\ UNCHANGED <<now, delivered, verified, generated,
                   last_delivered>>

\* Lines 336-339: del active_codes[phone_number]; 200.
VerifyOtpSuccess(t) ==
    /\ pc[t] = "success"
    /\ DeleteAndReturn(t, Reply(200, "Success", 0))
    /\ Heap(heap, IF active_codes[phone_number[t]] = 0
                  THEN accepted
                  ELSE [accepted EXCEPT ![active_code[t]] = @ + 1],
            compared)
    /\ UNCHANGED <<now, delivered, verified, generated,
                   last_delivered>>

\* Line 320, the loads of active_codes[phone_number]["attempts"] += 1.
VerifyOtpLoad(t) ==
    /\ pc[t] = "load"
    /\ IF active_codes[phone_number[t]] = 0
       THEN ReturnVerify(t, Unhandled)
       ELSE /\ entry' = [entry EXCEPT ![t] = active_codes[phone_number[t]]]
            /\ attempts_read' =
                 [attempts_read EXCEPT ![t] = heap[active_codes[phone_number[t]]].attempts]
            /\ pc' = [pc EXCEPT ![t] = "add"]
            /\ UNCHANGED <<phone_number, provided_code, code, expiration,
                           active_code, response>>
    /\ UNCHANGED active_codes
    /\ Heap(heap, accepted, compared)
    /\ UNCHANGED <<now, delivered, verified, generated,
                   last_delivered>>

\* Line 320, the store of active_codes[phone_number]["attempts"] += 1.
VerifyOtpAdd(t) ==
    /\ pc[t] = "add"
    /\ pc' = [pc EXCEPT ![t] = "ceiling"]
    /\ entry' = [entry EXCEPT ![t] = 0]
    /\ attempts_read' = [attempts_read EXCEPT ![t] = 0]
    /\ UNCHANGED <<active_codes, active_code>>
    /\ Heap([heap EXCEPT ![entry[t]].attempts = attempts_read[t] + 1], accepted,
            compared)
    /\ UNCHANGED <<now, delivered, phone_number, provided_code, code, expiration,
                   response, verified, generated,
                   last_delivered>>

\* Line 322 with > in the place of >=.
VerifyOtpCeilingPast(t) ==
    /\ pc[t] = "ceiling"
    /\ IF active_codes[phone_number[t]] = 0
       THEN ReturnVerify(t, Unhandled)
       ELSE IF heap[active_codes[phone_number[t]]].attempts > MAX_VERIFICATION_ATTEMPTS
            THEN Goto(t, "delete")
            ELSE Goto(t, "remaining")
    /\ UNCHANGED active_codes
    /\ Heap(heap, accepted, compared)
    /\ UNCHANGED <<now, delivered, verified, generated,
                   last_delivered>>

\* Line 322: active_codes[phone_number]["attempts"] >= MAX_VERIFICATION_ATTEMPTS.
VerifyOtpCeiling(t) ==
    /\ pc[t] = "ceiling"
    /\ IF active_codes[phone_number[t]] = 0
       THEN ReturnVerify(t, Unhandled)
       ELSE IF heap[active_codes[phone_number[t]]].attempts >= MAX_VERIFICATION_ATTEMPTS
            THEN Goto(t, "delete")
            ELSE Goto(t, "remaining")
    /\ UNCHANGED active_codes
    /\ Heap(heap, accepted, compared)
    /\ UNCHANGED <<now, delivered, verified, generated,
                   last_delivered>>

\* Lines 323-327 without the del of line 323.
VerifyOtpCeilingKeep(t) ==
    /\ pc[t] = "delete"
    /\ ReturnVerify(t, Reply(401, "TooManyAttempts", 0))
    /\ UNCHANGED active_codes
    /\ Heap(heap, accepted, compared)
    /\ UNCHANGED <<now, delivered, verified, generated,
                   last_delivered>>

\* Lines 323-327: del active_codes[phone_number]; 401.
VerifyOtpCeilingDelete(t) ==
    /\ pc[t] = "delete"
    /\ DeleteAndReturn(t, Reply(401, "TooManyAttempts", 0))
    /\ Heap(heap, accepted, compared)
    /\ UNCHANGED <<now, delivered, verified, generated,
                   last_delivered>>

\* Lines 329-333: remaining = MAX_VERIFICATION_ATTEMPTS - active_codes[...]["attempts"].
VerifyOtpRemaining(t) ==
    /\ pc[t] = "remaining"
    /\ IF active_codes[phone_number[t]] = 0
       THEN ReturnVerify(t, Unhandled)
       ELSE ReturnVerify(t, Reply(401, "IncorrectCode",
                                  MAX_VERIFICATION_ATTEMPTS
                                    - heap[active_codes[phone_number[t]]].attempts))
    /\ UNCHANGED active_codes
    /\ Heap(heap, accepted, compared)
    /\ UNCHANGED <<now, delivered, verified, generated,
                   last_delivered>>

\* -------------------------------------------------------------------- clock

\* Time passes between any two steps.
Tick ==
    /\ \E n \in Instants : n > now /\ now' = n
    /\ UNCHANGED <<active_codes, heap, delivered, pc, phone_number,
                   provided_code, code, expiration, active_code, entry,
                   attempts_read, response, accepted, compared, verified,
                   generated,
                   last_delivered>>

\* ----------------------------------------------------------- specifications

\* One step of the handler thread t stands in.
Continue(t) ==
    \/ SendOtpPost(t)
    \/ SendOtpStore(t)
    \/ VerifyOtpExpiry(t)
    \/ VerifyOtpAttempts(t)
    \/ VerifyOtpSuccess(t)
    \/ VerifyOtpLoad(t)
    \/ VerifyOtpAdd(t)
    \/ VerifyOtpCeiling(t)
    \/ VerifyOtpCeilingDelete(t)
    \/ VerifyOtpRemaining(t)

\* A request arrives on thread t: for a phone of P, send_otp generating a code
\* of G (at most n of them stored) or verify_otp with a body code of C.
Arrive(t, P, G, C, n) ==
    \/ \E p \in P, c \in G : SendOtpGenerate(t, p, c, n)
    \/ \E p \in P, c \in C : VerifyOtpGet(t, p, c)

\* Every kind of body code: absent, empty, the generated code, another string
\* of digits, a JSON number.
Candidates ==
    {JsonNull, JsonStr(<<>>), JsonStr(CodeA), JsonStr(CodeZ), JsonInt(CodeA)}

\* Two request threads on one phone number, interleaved at every access to
\* the shared dict, as the threaded server runs them.
Next ==
    \/ \E t \in {1, 2} : Arrive(t, {"15550001"}, {CodeA}, Candidates, MaxIssues)
    \/ \E t \in {1, 2} : Continue(t)
    \/ Tick

Spec == Init /\ [][Next]_vars

\* Sequential calls: one request at a time, each handler run to its return
\* before the next request arrives, the clock free to advance in between.
SeqNext ==
    \/ Arrive(1, {"15550001"}, {CodeA, CodeB}, Candidates \cup {JsonStr(CodeB)}, MaxIssues)
    \/ Continue(1)
    \/ Tick

SeqSpec == Init /\ [][SeqNext]_vars

\* Re-issue: two request threads, two different codes to generate, and the
\* two codes as the body codes of verify_otp.
ReissueNext ==
    \/ \E t \in {1, 2} :
          Arrive(t, {"15550001"}, {CodeA, CodeB}, {JsonStr(CodeA), JsonStr(CodeB)}, MaxIssues)
    \/ \E t \in {1, 2} : Continue(t)
    \/ Tick

ReissueSpec == Init /\ [][ReissueNext]_vars

\* One step of thread t in verify_otp after a code that did not match.
ContinueIncorrect(t) ==
    \/ VerifyOtpExpiry(t)
    \/ VerifyOtpAttempts(t)
    \/ VerifyOtpLoad(t)
    \/ VerifyOtpAdd(t)
    \/ VerifyOtpCeiling(t)
    \/ VerifyOtpCeilingDelete(t)
    \/ VerifyOtpRemaining(t)

\* Brute force: MAX_VERIFICATION_ATTEMPTS request threads, one code sent, and
\* verify_otp called with an incorrect code only; no time passes.
AttackNext ==
    \/ \E t \in Threads : Arrive(t, {"15550001"}, {CodeA}, {JsonStr(CodeZ)}, 1)
    \/ \E t \in Threads : SendOtpPost(t) \/ SendOtpStore(t)
    \/ \E t \in Threads : ContinueIncorrect(t)

AttackSpec == Init /\ [][AttackNext]_vars

\* Two phone numbers: requests for the first arrive on one thread while
\* requests for the second arrive on another, one code to generate, that code
\* and another one as body codes.
PhoneOf(t) == IF t = 1 THEN "15550001" ELSE "15550002"

IsolationNext ==
    \/ \E t \in {1, 2} :
          Arrive(t, {PhoneOf(t)}, {CodeA}, {JsonNull, JsonStr(CodeA), JsonStr(CodeZ)},
                 MaxIssues)
    \/ \E t \in {1, 2} : Continue(t)
    \/ Tick

IsolationSpec == Init /\ [][IsolationNext]_vars

\* Lines 64-78 and 246: the hash of the code is what is stored.
StoreHash ==
    /\ verified.step = "code"
    /\ verified' = [verified EXCEPT !.stored_hash = hash_code(verified.code),
                                    !.step = "hash"]
    /\ UNCHANGED <<active_codes, heap, now, delivered, pc, phone_number,
                   provided_code, code, expiration, active_code, entry,
                   attempts_read, response, accepted, compared, generated,
                   last_delivered>>

\* Lines 81-97 and 319: the provided code is checked against the stored hash.
VerifyCode ==
    /\ verified.step = "hash"
    /\ verified' = [verified EXCEPT
                       !.result = verify_code(verified.provided_code,
                                              verified.stored_hash),
                       !.step = "done"]
    /\ UNCHANGED <<active_codes, heap, now, delivered, pc, phone_number,
                   provided_code, code, expiration, active_code, entry,
                   attempts_read, response, accepted, compared, generated,
                   last_delivered>>

\* hash_code and verify_code on every pair of codes of Codes.
VerifierInit ==
    /\ Started
    /\ generated = Ungenerated(0)
    /\ \E provided \in Codes, c \in Codes : verified = Unverified(provided, c)

VerifierNext == StoreHash \/ VerifyCode

VerifierSpec == VerifierInit /\ [][VerifierNext]_vars

\* Lines 58-61: the code is computed from the random number.
GenerateCode ==
    /\ generated.step = "random"
    /\ generated' = [generated EXCEPT !.code = generate_code(generated.randbelow),
                                      !.step = "done"]
    /\ UNCHANGED <<active_codes, heap, now, delivered, pc, phone_number,
                   provided_code, code, expiration, active_code, entry,
                   attempts_read, response, accepted, compared, verified,
                   last_delivered>>

\* generate_code on every number secrets.randbelow can return.
GeneratorInit ==
    /\ Started
    /\ verified = Unverified(<<>>, <<>>)
    /\ \E r \in 0..(RandBelow - 1) : generated = Ungenerated(r)

GeneratorNext == GenerateCode

GeneratorSpec == GeneratorInit /\ [][GeneratorNext]_vars

\* ------------------------------------------------------------------- claims

\* Some handler returns in this step; response' is what it returns.
Responds ==
    \/ response' # response
    \/ \E t \in Threads : pc[t] # "idle" /\ pc'[t] = "idle"

\* verify_otp returns in this step.
VerifyResponds == Responds /\ response'.handler = "verify_otp"

\* A verify_otp request for phone p arrives in this step (lines 286-300): it
\* is answered at once, or goes on to the expiry check.
VerifyArrives(p) ==
    \/ pc' = pc /\ response' # response /\ response'.handler = "verify_otp"
         /\ response'.phone = p
    \/ \E t \in Threads : pc[t] = "idle" /\ pc'[t] = "expiry" /\ phone_number'[t] = p

\* C1 -- One-time use: once verify_otp has answered Success, the record is
\* gone, every verify_otp request arriving while it is gone is answered
\* NotFound whatever its code, only a send_otp that succeeds brings a record
\* back, and no record object (issuance) is answered Success twice.
C1_OneTimeUse ==
    [][ /\ \A p \in Phones :
             /\ (active_codes[p] = 0 /\ VerifyArrives(p))
                   => (pc' = pc /\ response'.outcome = "NotFound")
             /\ (active_codes[p] = 0 /\ active_codes'[p] # 0)
                   => (response'.handler = "send_otp" /\ response'.outcome = "Sent"
                       /\ response'.phone = p)
        /\ (VerifyResponds /\ response'.outcome = "Success")
             => (active_codes'[response'.phone] = 0 /\ accepted[response'.record] = 0)
      ]_vars

\* send_otp returns 200 in this step, having stored a record.
IssueSucceeds ==
    Responds /\ response'.handler = "send_otp" /\ response'.outcome = "Sent"

\* The body code of response r is a string, not empty, that is not the code
\* of record object o.
Incorrect(r, o) ==
    /\ r.provided_code.type = "str"
    /\ r.provided_code.chars # <<>>
    /\ ~verify_code(r.provided_code.chars, heap[o].code_hash)

\* C2 -- Attempt ceiling, for calls made one after the other: send_otp stores
\* a record with no attempt counted; the k-th verify_otp call with an
\* incorrect, non-empty code on a record that has not expired is answered
\* "Incorrect code" with MAX_VERIFICATION_ATTEMPTS - k attempts remaining
\* while k < MAX_VERIFICATION_ATTEMPTS, the record staying with k attempts;
\* the MAX_VERIFICATION_ATTEMPTS-th is answered "Too many failed attempts"
\* and the record is removed; a verify_otp call arriving after that is
\* answered NotFound whatever its code.
C2_AttemptCeiling ==
    [][ /\ IssueSucceeds
             => LET o == active_codes'[response'.phone]
                IN  o # 0 /\ heap'[o].attempts = 0 /\ compared'[o] = 0
        /\ (/\ VerifyResponds
            /\ response'.record # 0
            /\ Incorrect(response', response'.record)
            /\ now <= heap[response'.record].expiration)
             => LET o == response'.record
                    p == response'.phone
                    k == compared[o]
                IN  IF k < MAX_VERIFICATION_ATTEMPTS
                    THEN /\ response'.outcome = "IncorrectCode"
                         /\ response'.remaining = MAX_VERIFICATION_ATTEMPTS - k
                         /\ active_codes'[p] = o
                         /\ heap'[o].attempts = k
                    ELSE /\ k = MAX_VERIFICATION_ATTEMPTS
                         /\ response'.outcome = "TooManyAttempts"
                         /\ active_codes'[p] = 0
        /\ \A p \in Phones :
             (active_codes[p] = 0 /\ VerifyArrives(p))
                => (response'.outcome = "NotFound" /\ active_codes'[p] = 0)
      ]_vars

\* The third incorrect code in a row has been answered "Too many failed
\* attempts" and the record is gone.
C2_CeilingReached ==
    /\ response.handler = "verify_otp"
    /\ response.outcome = "TooManyAttempts"
    /\ response.provided_code \in {JsonStr(CodeZ), JsonStr(CodeA), JsonStr(CodeB)}
    /\ active_codes[response.phone] = 0

\* C3 -- Expiry: a verify_otp call with a non-empty code whose expiry check
\* (line 303) runs at a time after the record's expiration is answered
\* "Code has expired" at that check, whatever its code, and the record is
\* removed; it never goes on to the comparison, so it is never answered
\* Success; a verify_otp call arriving while the record is gone is answered
\* NotFound.
C3_Expiry ==
    [][ /\ \A t \in Threads :
             (/\ pc[t] = "expiry"
              /\ pc'[t] # "expiry"
              /\ now > heap[active_code[t]].expiration)
                => /\ pc'[t] = "idle"
                   /\ response'.handler = "verify_otp"
                   /\ response'.outcome = "Expired"
                   /\ response'.record = active_code[t]
                   /\ active_codes[phone_number[t]] = active_code[t]
                   /\ active_codes'[phone_number[t]] = 0
        /\ \A p \in Phones :
             (active_codes[p] = 0 /\ VerifyArrives(p))
                => (pc' = pc /\ response'.outcome = "NotFound"
                    /\ response'.status = 404)
      ]_vars

\* C4 -- Re-issue overwrite: when a second (or later) record has been stored
\* for a phone number, a verify_otp call that read that record and carries a
\* code delivered earlier for the number, other than the record's own, is
\* answered "Incorrect code", "Too many failed attempts" or "Code has
\* expired", never Success; one that arrives when the record is gone is
\* answered NotFound.
C4_ReissueOverwrite ==
    [][ /\ (/\ VerifyResponds
            /\ response'.record >= 2
            /\ <<response'.phone, response'.provided_code.chars>> \in delivered
            /\ Incorrect(response', response'.record))
             => response'.outcome \in {"IncorrectCode", "TooManyAttempts", "Expired"}
        /\ \A p \in Phones :
             (active_codes[p] = 0 /\ VerifyArrives(p) /\ Len(heap) >= 2)
                => response'.outcome = "NotFound"
      ]_vars

\* Thread t stands at a `del active_codes[phone_number]` (lines 304, 312,
\* 323, 336).
Deleting(t) ==
    \/ pc[t] = "expiry" /\ now > heap[active_code[t]].expiration
    \/ pc[t] = "attempts"
         /\ heap[active_code[t]].attempts >= MAX_VERIFICATION_ATTEMPTS
    \/ pc[t] = "delete"
    \/ pc[t] = "success"

\* C5 -- Concurrent incorrect verifications of one fresh record, under every
\* interleaving: no call deletes an entry that is already deleted; the stored
\* attempts never exceed MAX_VERIFICATION_ATTEMPTS; the call answered "Too
\* many failed attempts" is the one that removes the record it read, so there
\* is one such call; and once MAX_VERIFICATION_ATTEMPTS incorrect codes have
\* been compared and every call has returned, the record is gone.
C5_ConcurrentCeiling ==
    [][ /\ \A t \in Threads :
             (Deleting(t) /\ pc'[t] # pc[t]) => active_codes[phone_number[t]] # 0
        /\ \A p \in Phones :
             active_codes'[p] # 0
                => heap'[active_codes'[p]].attempts <= MAX_VERIFICATION_ATTEMPTS
        /\ (VerifyResponds /\ response'.outcome = "TooManyAttempts")
             => /\ active_codes[response'.phone] = response'.record
                /\ active_codes'[response'.phone] = 0
        /\ \A p \in Phones :
             (active_codes'[p] # 0 /\ \A t \in Threads : pc'[t] = "idle")
                => compared'[active_codes'[p]] < MAX_VERIFICATION_ATTEMPTS
      ]_vars

\* C6 -- Delivery failure leaves the store untouched: when requests.post
\* answers another status than 200 or raises, send_otp returns the delivery
\* error and active_codes and its records are what they were; and in every
\* state, under every interleaving of send_otp and verify_otp, each record in
\* active_codes holds the hash of a code delivered to its phone number.
C6_DeliveryFailure ==
    [][ /\ \A t \in Threads :
             (pc[t] = "post" /\ pc'[t] = "idle")
                => /\ response'.handler = "send_otp"
                   /\ response'.status = 500
                   /\ response'.outcome = "DeliveryError"
                   /\ active_codes' = active_codes
                   /\ heap' = heap
                   /\ delivered' = delivered
        /\ (Responds /\ response'.outcome = "DeliveryError")
             => active_codes' = active_codes /\ heap' = heap
        /\ \A p \in Phones :
             active_codes'[p] # 0
                => \E d \in delivered' :
                      /\ d[1] = p
                      /\ heap'[active_codes'[p]].code_hash = hash_code(d[2])
      ]_vars

\* send_otp has just failed to deliver while a record was stored for the
\* number: the record is there, as it was.
C6_FailedWithRecord ==
    /\ response.handler = "send_otp"
    /\ response.outcome = "DeliveryError"
    /\ active_codes[response.phone] # 0
    /\ heap[active_codes[response.phone]].attempts > 0

C8_OutcomeTotality ==
    [][ VerifyResponds
          => /\ response'.outcome \in {"Success", "BadRequest", "NotFound",
                                        "Expired", "IncorrectCode",
                                        "TooManyAttempts"}
             /\ response'.status # 500
             /\ response'.outcome = "IncorrectCode"
                  => /\ response'.remaining >= 1
                     /\ response'.remaining <= MAX_VERIFICATION_ATTEMPTS - 1
      ]_vars

\* C9 -- Issue success writes a fresh record: the expiration is computed when
\* the code is generated, before the delivery call, and is kept as computed
\* while the delivery is under way; send_otp's 200 stores a new record
\* {hash_code(code), that expiration, attempts 0} for the number, the code
\* being the delivered one; and a verify_otp call with that code, made right
\* after at a time not past the expiration, is answered Success.
C9_FreshRecord ==
    [][ /\ \A t \in Threads :
             /\ (pc[t] = "idle" /\ pc'[t] = "post")
                   => expiration'[t] = now + CODE_LIFETIME_MINUTES
             /\ (pc[t] \in {"post", "store"} /\ pc'[t] \in {"post", "store"})
                   => (expiration'[t] = expiration[t] /\ code'[t] = code[t])
        /\ IssueSucceeds
             => \E t \in Threads :
                   /\ pc[t] = "store"
                   /\ pc'[t] = "idle"
                   /\ response'.phone = phone_number[t]
                   /\ response'.status = 200
                   /\ <<phone_number[t], code[t]>> \in delivered
                   /\ LET o == active_codes'[phone_number[t]]
                      IN  /\ o # 0
                          /\ o # active_codes[phone_number[t]]
                          /\ heap'[o] = [code_hash |-> hash_code(code[t]),
                                         expiration |-> expiration[t],
                                         attempts |-> 0]
        /\ (/\ VerifyResponds
            /\ response.handler = "send_otp"
            /\ response.outcome = "Sent"
            /\ response.phone = response'.phone
            /\ active_codes[response'.phone] # 0
            /\ response'.provided_code.type = "str"
            /\ <<response'.phone, response'.provided_code.chars>> \in delivered
            /\ verify_code(response'.provided_code.chars,
                           heap[active_codes[response'.phone]].code_hash)
            /\ now <= heap[active_codes[response'.phone]].expiration)
             => (response'.outcome = "Success" /\ response'.status = 200)
      ]_vars

\* send_otp has just stored a second record, some time after generating its
\* code: the expiration is that of the generation, no attempt is counted.
C9_StoredLater ==
    /\ response.handler = "send_otp"
    /\ response.outcome = "Sent"
    /\ active_codes[response.phone] = 2
    /\ heap[2].attempts = 0
    /\ heap[2].expiration < now + CODE_LIFETIME_MINUTES

\* C10 -- Verifier correctness: for all codes c and c' of Codes,
\* verify_code(c', hash_code(c)) is true when c' = c and false when c' # c.
C10_VerifierCorrect ==
    verified.step = "done"
       => /\ verified.stored_hash = hash_code(verified.code)
          /\ verified.result = (verified.provided_code = verified.code)

\* verify_code has rejected a code that shares its first digit with the code
\* that was hashed.
C10_OtherCodeRejected ==
    /\ verified.step = "done"
    /\ verified.provided_code # verified.code
    /\ verified.provided_code[1] = verified.code[1]
    /\ ~verified.result

RECURSIVE IntOf(_)
\* int(s) of a string of decimal digits s.
IntOf(s) == IF s = <<>> THEN 0 ELSE 10 * IntOf(SubSeq(s, 1, Len(s) - 1)) + s[Len(s)]

\* C11 -- Code generator range: for every number r that secrets.randbelow can
\* return, 0 <= r <= (10^CODE_LENGTH - 1) - 10^(CODE_LENGTH - 1),
\* generate_code returns a string of exactly CODE_LENGTH decimal digits whose
\* value is 10^(CODE_LENGTH - 1) + r, within [10^(CODE_LENGTH - 1),
\* 10^CODE_LENGTH - 1]; zfill adds no character and the first digit is not 0.
C11_GeneratorRange ==
    generated.step = "done"
       => /\ Len(generated.code) = CODE_LENGTH
          /\ \A i \in 1..CODE_LENGTH : generated.code[i] \in 0..9
          /\ IntOf(generated.code) = Pow10(CODE_LENGTH - 1) + generated.randbelow
          /\ IntOf(generated.code) >= Pow10(CODE_LENGTH - 1)
          /\ IntOf(generated.code) <= Pow10(CODE_LENGTH) - 1
          /\ generated.code = Str(IntOf(generated.code))
          /\ generated.code[1] # 0

\* The largest number secrets.randbelow can return has given the code 999999.
C11_LargestCode ==
    /\ generated.step = "done"
    /\ generated.randbelow = (Pow10(CODE_LENGTH) - 1) - Pow10(CODE_LENGTH - 1)
    /\ generated.code = [i \in 1..CODE_LENGTH |-> 9]

\* C12 -- Brute-force bound under interleaving: for every record object,
\* whatever the interleaving of the verify_otp calls on its phone number, at
\* most MAX_VERIFICATION_ATTEMPTS codes are compared with its hash and found
\* not to match.
C12_BruteForceBound ==
    \A o \in DOMAIN compared : compared[o] <= MAX_VERIFICATION_ATTEMPTS

\* No verify_otp call is in progress on phone p.
NoVerify(p) == \A t \in Threads : pc[t] \in {"idle", "post", "store"} \/ phone_number[t] # p

\* C13 -- Attempts invariant, for handlers that run one at a time: while no
\* verify_otp call is in progress on a phone number, its record, when there
\* is one, has between 0 and MAX_VERIFICATION_ATTEMPTS - 1 attempts; and a
\* call that reaches the guard of line 311 never finds it true.
C13_AttemptsInvariant ==
    /\ \A p \in Phones :
          (active_codes[p] # 0 /\ NoVerify(p))
             => heap[active_codes[p]].attempts \in 0..(MAX_VERIFICATION_ATTEMPTS - 1)
    /\ \A t \in Threads :
          pc[t] = "attempts"
             => heap[active_code[t]].attempts < MAX_VERIFICATION_ATTEMPTS

\* A record with one attempt left is in the store and no call is in progress.
C13_OneAttemptLeft ==
    /\ \A t \in Threads : pc[t] = "idle"
    /\ \E p \in Phones :
          /\ active_codes[p] # 0
          /\ heap[active_codes[p]].attempts = MAX_VERIFICATION_ATTEMPTS - 1

\* C14 -- Guard outcomes do not mutate: a verify_otp call answered NotFound
\* or BadRequest leaves active_codes and every record as they were: nothing
\* is created, deleted or modified, no attempt is counted and no code is
\* compared.
C14_GuardsDoNotMutate ==
    [][ (VerifyResponds /\ response'.outcome \in {"NotFound", "BadRequest"})
          => /\ active_codes' = active_codes
             /\ heap' = heap
             /\ compared' = compared
             /\ accepted' = accepted
             /\ delivered' = delivered
      ]_vars

\* A request without a code has been answered BadRequest, no call is in
\* progress, and the record is there with the attempts it had used.
C14_BudgetKept ==
    /\ \A t \in Threads : pc[t] = "idle"
    /\ response.handler = "verify_otp"
    /\ response.outcome = "BadRequest"
    /\ Falsy(response.provided_code)
    /\ active_codes[response.phone] = response.record
    /\ response.record # 0
    /\ heap[response.record].attempts = MAX_VERIFICATION_ATTEMPTS - 1

\* C15 -- Effect of each compared verify: a verify_otp call answered Success,
\* "Code has expired" or "Too many failed attempts" has removed the record of
\* the phone number; a call answered "Incorrect code" leaves the record in
\* the store with the same code_hash and expiration; no step of verify_otp
\* changes the code_hash or the expiration of a stored record; and each code
\* found not to match has raised the record's attempts by exactly 1, so that
\* with no call in progress the attempts of a stored record are the number
\* of codes found not to match it.
C15_ComparedEffect ==
    [][ /\ (VerifyResponds
             /\ response'.outcome \in {"Success", "Expired", "TooManyAttempts"})
             => /\ active_codes[response'.phone] # 0
                /\ active_codes'[response'.phone] = 0
        /\ (VerifyResponds /\ response'.outcome = "IncorrectCode")
             => /\ active_codes[response'.phone] # 0
                /\ active_codes'[response'.phone] = active_codes[response'.phone]
                /\ heap'[active_codes'[response'.phone]]
                      = heap[active_codes[response'.phone]]
        /\ \A p \in Phones :
             (active_codes[p] # 0 /\ active_codes'[p] = active_codes[p])
                => /\ heap'[active_codes[p]].code_hash = heap[active_codes[p]].code_hash
                   /\ heap'[active_codes[p]].expiration = heap[active_codes[p]].expiration
        /\ \A p \in Phones :
             (active_codes'[p] # 0 /\ \A t \in Threads : pc'[t] = "idle")
                => heap'[active_codes'[p]].attempts = compared'[active_codes'[p]]
      ]_vars

\* C16 -- Strict expiry boundary and lazy expiry: the expiry check of line 303
\* ends the call exactly when now > expiration and lets it go on when
\* now <= expiration; a record leaves active_codes only in the step in which
\* a verify_otp call with a non-empty code returns or a send_otp stores a new
\* record, never through the passage of time; and a verify_otp call with the
\* code of the record it read, returning at a time not past the expiration,
\* the very instant of expiration included, is answered Success.
C16_StrictLazyExpiry ==
    [][ /\ \A t \in Threads :
             (pc[t] = "expiry" /\ pc'[t] # "expiry")
                => IF now > heap[active_code[t]].expiration
                   THEN pc'[t] = "idle"
                   ELSE pc'[t] = "attempts"
        /\ \A p \in Phones :
             (active_codes[p] # 0 /\ active_codes'[p] # active_codes[p])
                => \/ /\ VerifyResponds
                      /\ response'.phone = p
                      /\ ~Falsy(response'.provided_code)
                   \/ IssueSucceeds /\ response'.phone = p
        /\ (/\ VerifyResponds
            /\ response'.record # 0
            /\ response'.provided_code.type = "str"
            /\ verify_code(response'.provided_code.chars,
                           heap[response'.record].code_hash)
            /\ now <= heap[response'.record].expiration)
             => response'.outcome = "Success"
      ]_vars

\* C17 -- Delivery precedes mutation: while send_otp generates the code and
\* while its delivery call is pending, the entry of the phone number and its
\* record are unchanged; the record is written only by a call whose delivery
\* was answered 200, with the code delivered; and once the overlapping
\* send_otp calls on a phone number have returned, the record stored for it,
\* when there is one, is that of the code delivered last.
C17_DeliveryPrecedesStore ==
    [][ /\ \A t \in Threads :
             (pc'[t] = "post" \/ pc[t] = "post")
                => (pc'[t] # pc[t] => (active_codes' = active_codes /\ heap' = heap))
        /\ IssueSucceeds
             => \E t \in Threads :
                   /\ pc[t] = "store"
                   /\ pc'[t] = "idle"
                   /\ <<phone_number[t], code[t]>> \in delivered
                   /\ heap'[active_codes'[phone_number[t]]].code_hash
                        = hash_code(code[t])
        /\ \A p \in Phones :
             (active_codes'[p] # 0 /\ \A t \in Threads : pc'[t] = "idle")
                => heap'[active_codes'[p]].code_hash = hash_code(last_delivered'[p])
      ]_vars

\* C18 -- A verify only consumes the record it evaluated: whenever a
\* verify_otp call deletes the entry of its phone number (lines 304, 312, 323,
\* 336), under any interleaving with a send_otp that stores a record, the
\* entry deleted is the record object the call read at line 286; and a call
\* is answered Success only on the record that is in the store.
C18_ConsumesOwnRecord ==
    [][ /\ \A t \in Threads :
             (/\ Deleting(t)
              /\ pc'[t] # pc[t]
              /\ active_codes[phone_number[t]] # 0)
                => active_codes[phone_number[t]] = active_code[t]
        /\ (VerifyResponds /\ response'.outcome = "Success")
             => active_codes[response'.phone] = response'.record
      ]_vars

\* The store entry of phone q: the record object under the key (0: absent)
\* and its code_hash, expiration and attempts.
StoreEntry(q) ==
    <<active_codes[q], IF active_codes[q] = 0 THEN Freed ELSE heap[active_codes[q]]>>

\* This step is a step of send_otp or verify_otp for phone p: a request for p
\* arrives, or a handler serving p goes on or returns.
Operates(p) ==
    \/ \E t \in Threads : pc[t] # "idle" /\ pc'[t] # pc[t] /\ phone_number[t] = p
    \/ \E t \in Threads : pc[t] = "idle" /\ pc'[t] # "idle" /\ phone_number'[t] = p
    \/ pc' = pc /\ response' # response /\ response'.phone = p

====
